---- MODULE Spec2Model ----
(***************************************************************************)
(* Model of the chat backend of the document chatbot: the POST /api/chat   *)
(* handler (retry loop, response-shape normalisation, mock fallback,       *)
(* construction of the AI message) and the in-memory chat history store.   *)
(*                                                                         *)
(* Text is a sequence of tokens (strings).  A token is one character       *)
(* (a letter, a space, a backtick, a brace ...) or an indivisible word that  *)
(* contains none of the characters the code inspects.                      *)
(***************************************************************************)
EXTENDS Integers, Sequences, FiniteSets, TLC

(***************************************************************************)
(* Bounds of the model                                                     *)
(***************************************************************************)
MaxLen == 4
NumReq == 2
MaxNow == 1
MaxSessions == 2
MaxClock == 26
MaxLine == 4
MaxPages == 3
MaxListed == 6
MaxSends == 2
MaxChats == 3

(***************************************************************************)
(* Program constants                                                       *)
(***************************************************************************)
MAX_RETRIES == 2
RETRY_DELAY_BASE_MS == 1000

(***************************************************************************)
(* Text helpers                                                            *)
(***************************************************************************)
Q == "<q>"
BT == "<bt>"
LF == "<lf>"
CR == "<cr>"
TAB == "<tab>"
Ws == {" ", LF, CR, TAB}

RECURSIVE Pow2(_)
Pow2(n) == IF n = 0 THEN 1 ELSE 2 * Pow2(n - 1)

Sub(t, i, j) == IF i > j THEN <<>> ELSE SubSeq(t, i, j)

\* the least element of a set of positions, 0 for the empty set
MinOf(S) == IF S = {} THEN 0 ELSE CHOOSE j \in S : \A k \in S : j <= k

\* the greatest element of a set of positions, 0 for the empty set
MaxOf(S) == IF S = {} THEN 0 ELSE CHOOSE j \in S : \A k \in S : k <= j

\* String.prototype.trim
TrimFrom(t, first) == IF first = 0 THEN <<>> ELSE Sub(t, first, Len(t))
TrimLeft(t) == TrimFrom(t, MinOf({i \in 1..Len(t) : t[i] \notin Ws}))
TrimRight(t) == Sub(t, 1, MaxOf({i \in 1..Len(t) : t[i] \notin Ws}))
Trim(t) == TrimRight(TrimLeft(t))

\* the three replaces of newline, carriage return and tab by a space
ReplaceCtl(t) == [i \in 1..Len(t) |-> IF t[i] \in {LF, CR, TAB} THEN " " ELSE t[i]]

\* replace(/\s+/g, <space>) over the positions lo..hi of t: a run of
\* whitespace leaves one space, at its first position
RECURSIVE CollapseRange(_, _, _)
CollapseRange(t, lo, hi) ==
  IF lo > hi THEN <<>>
  ELSE IF lo = hi
  THEN (IF t[lo] \notin Ws THEN <<t[lo]>>
        ELSE IF lo > 1 /\ t[lo - 1] \in Ws THEN <<>> ELSE <<" ">>)
  ELSE CollapseRange(t, lo, (lo + hi) \div 2) \o CollapseRange(t, (lo + hi) \div 2 + 1, hi)
CollapseWs(t) == CollapseRange(t, 1, Len(t))

\* the cleaning chain applied to a JSON string before JSON.parse
CleanString(t) == Trim(CollapseWs(ReplaceCtl(t)))

\* n copies of the token d start at position i of t
DelimAt(t, i, d, n) == i >= 1 /\ i + n - 1 <= Len(t) /\ \A k \in 0..(n - 1) : t[i + k] = d

\* the least position >= i where n copies of d start, 0 when there is none
FindDelim(t, i, d, n) == MinOf({j \in i..Len(t) : DelimAt(t, j, d, n)})

\* the first position >= i that holds no whitespace
RECURSIVE SkipWs(_, _)
SkipWs(t, i) == IF i <= Len(t) /\ t[i] \in Ws THEN SkipWs(t, i + 1) ELSE i

\* the code-block match: three backticks, an optional json, optional
\* whitespace, the lazily matched group, three backticks
NoMatch == [found |-> FALSE, group |-> <<>>]
MatchGroup(t, p, c) == IF c = 0 THEN NoMatch ELSE [found |-> TRUE, group |-> Sub(t, p, c - 1)]
MatchFrom(t, p) == MatchGroup(t, p, FindDelim(t, p, BT, 3))
MatchOpen(t, i) ==
  IF i = 0 THEN NoMatch
  ELSE MatchFrom(t, SkipWs(t, IF i + 3 <= Len(t) /\ t[i + 3] = "json" THEN i + 4 ELSE i + 3))
CodeBlockMatch(t) == MatchOpen(t, FindDelim(t, 1, BT, 3))

(***************************************************************************)
(* JSON values.  A scalar is [t, v]: t its JavaScript type, v its text.    *)
(* An answer object holds one scalar per key; an absent key is undefined.  *)
(***************************************************************************)
Undef == [t |-> "undef", v |-> <<>>]
Null == [t |-> "null", v |-> <<>>]
Str(s) == [t |-> "str", v |-> s]
Num(n) == [t |-> "num", v |-> <<n>>]

NumToks == {"0", "5", "7", "25", "32", "89", "95", "411", "414", "15", "28"}

\* JavaScript truthiness of a scalar
Truthy(x) ==
  CASE x.t = "str" -> x.v # <<>>
    [] x.t = "num" -> x.v # <<"0">>
    [] OTHER -> FALSE

KeyOrder == <<"answer", "FileID", "FileName", "FileLink", "From", "To", "searchInfo">>
Keys == {"answer", "FileID", "FileName", "FileLink", "From", "To", "searchInfo"}
KeyTok ==
  [k \in Keys |->
    CASE k = "answer" -> "answer:"
      [] k = "FileID" -> "FileID:"
      [] k = "FileName" -> "FileName:"
      [] k = "FileLink" -> "FileLink:"
      [] k = "From" -> "From:"
      [] k = "To" -> "To:"
      [] k = "searchInfo" -> "searchInfo:"]
KeyToks == {"answer:", "FileID:", "FileName:", "FileLink:", "From:", "To:", "searchInfo:"}
KeyOf(tok) == CHOOSE k \in Keys : KeyTok[k] = tok

EmptyObj == [k \in Keys |-> Undef]

\* a value of any type: a scalar, or an object (o) when t = "obj"
VObj(p) == [t |-> "obj", v |-> <<>>, o |-> p]
VScalar(x) == [t |-> x.t, v |-> x.v, o |-> EmptyObj]
VStr(s) == [t |-> "str", v |-> s, o |-> EmptyObj]
VUndef == [t |-> "undef", v |-> <<>>, o |-> EmptyObj]
VNull == [t |-> "null", v |-> <<>>, o |-> EmptyObj]
VTruthy(x) == x.t = "obj" \/ Truthy(x)

EscLF == "<esc-lf>"
EscCR == "<esc-cr>"
EscTAB == "<esc-tab>"
EscQ == "<esc-q>"
\* the escapes JSON.stringify writes inside a string, and JSON.parse reads
Escape(s) ==
  [i \in 1..Len(s) |->
    CASE s[i] = LF -> EscLF [] s[i] = CR -> EscCR [] s[i] = TAB -> EscTAB
      [] s[i] = Q -> EscQ [] OTHER -> s[i]]
Unescape(s) ==
  [i \in 1..Len(s) |->
    CASE s[i] = EscLF -> LF [] s[i] = EscCR -> CR [] s[i] = EscTAB -> TAB
      [] s[i] = EscQ -> Q [] OTHER -> s[i]]

\* JSON.stringify of a scalar and of an answer object (undefined members are
\* left out, the others appear in insertion order, no whitespace)
StringifyScalar(x) ==
  CASE x.t = "str" -> <<Q>> \o Escape(x.v) \o <<Q>>
    [] x.t = "num" -> x.v
    [] OTHER -> <<"null">>

RECURSIVE StringifyMembers(_, _, _)
StringifyMembers(p, i, first) ==
  IF i > Len(KeyOrder) THEN <<>>
  ELSE IF p[KeyOrder[i]].t = "undef" THEN StringifyMembers(p, i + 1, first)
  ELSE (IF first THEN <<>> ELSE <<",">>) \o <<KeyTok[KeyOrder[i]]>>
       \o StringifyScalar(p[KeyOrder[i]]) \o StringifyMembers(p, i + 1, FALSE)

Stringify(p) == <<"{">> \o StringifyMembers(p, 1, TRUE) \o <<"}">>

\* JSON.parse: whitespace between tokens is skipped, a string may not hold a
\* raw control character, anything after the value is an error
ParseFail == [ok |-> FALSE, val |-> VUndef, next |-> 0]
Parsed1(val, next) == [ok |-> TRUE, val |-> val, next |-> next]

\* the string that opens at i and closes at j (0: it does not close)
ParseString(t, i, j) ==
  IF j = 0 \/ \E k \in (i + 1)..(j - 1) : t[k] \in {LF, CR, TAB}
  THEN ParseFail
  ELSE Parsed1(VStr(Unescape(Sub(t, i + 1, j - 1))), j + 1)

ParseScalar(t, i) ==
  IF i > Len(t) THEN ParseFail
  ELSE IF t[i] = "null" THEN Parsed1(VNull, i + 1)
  ELSE IF t[i] \in NumToks THEN Parsed1(VScalar(Num(t[i])), i + 1)
  ELSE IF t[i] = Q THEN ParseString(t, i, MinOf({j \in (i + 1)..Len(t) : t[j] = Q}))
  ELSE ParseFail

RECURSIVE ParseMembers(_, _, _)
\* after a member: a comma and the next member, or the closing brace
ParseAfterMember(t, j, acc) ==
  IF j <= Len(t) /\ t[j] = "," THEN ParseMembers(t, j + 1, acc)
  ELSE IF j <= Len(t) /\ t[j] = "}" THEN Parsed1(VObj(acc), j + 1)
  ELSE ParseFail
\* the member of key k whose value parsed as sc
ParseMemberValue(t, k, sc, acc) ==
  IF ~sc.ok THEN ParseFail
  ELSE ParseAfterMember(t, SkipWs(t, sc.next), [acc EXCEPT ![k] = [t |-> sc.val.t, v |-> sc.val.v]])
ParseMemberAt(t, i, acc) ==
  IF i > Len(t) \/ t[i] \notin KeyToks THEN ParseFail
  ELSE ParseMemberValue(t, KeyOf(t[i]), ParseScalar(t, SkipWs(t, i + 1)), acc)
ParseMembers(t, i, acc) == ParseMemberAt(t, SkipWs(t, i), acc)

\* the object that opens at i, j the first position after the brace
ParseObject(t, j) ==
  IF j <= Len(t) /\ t[j] = "}" THEN Parsed1(VObj(EmptyObj), j + 1)
  ELSE ParseMemberAt(t, j, EmptyObj)
ParseValue(t, i) ==
  IF i <= Len(t) /\ t[i] = "{" THEN ParseObject(t, SkipWs(t, i + 1)) ELSE ParseScalar(t, i)

ParseEnd(t, r) ==
  IF r.ok /\ SkipWs(t, r.next) = Len(t) + 1
  THEN [ok |-> TRUE, val |-> r.val]
  ELSE [ok |-> FALSE, val |-> VUndef]
JSONParse(t) == ParseEnd(t, ParseValue(t, SkipWs(t, 1)))

(***************************************************************************)
(* formatChatbotResponse                                                   *)
(***************************************************************************)
\* replace(/D(.*?)D/g, group) for the delimiter D = n copies of d: the group
\* is matched lazily and does not cross a line terminator
RECURSIVE RemovePairs(_, _, _, _)
\* s: where D opens, c: where D next starts after it (0: nowhere)
RemovePairClose(t, i, d, n, s, c) ==
  IF c # 0 /\ \A k \in (s + n)..(c - 1) : t[k] \notin {LF, CR}
  THEN Sub(t, i, s - 1) \o Sub(t, s + n, c - 1) \o RemovePairs(t, c + n, d, n)
  ELSE Sub(t, i, s) \o RemovePairs(t, s + 1, d, n)
RemovePairOpen(t, i, d, n, s) ==
  IF s = 0 THEN Sub(t, i, Len(t))
  ELSE RemovePairClose(t, i, d, n, s, FindDelim(t, s + n, d, n))
RemovePairs(t, i, d, n) == RemovePairOpen(t, i, d, n, FindDelim(t, i, d, n))

\* The answers of this model have at most two non-blank lines, for which
\* the function returns the cleaned answer, trimmed, at its first exit.
formatChatbotResponse(answer) ==
  Trim(RemovePairs(RemovePairs(RemovePairs(answer, 1, BT, 3), 1, BT, 1), 1, "*", 1))

(***************************************************************************)
(* generateMockChatResponse.  A chat input is a sequence of words; a word  *)
(* includes the keywords that are substrings of its lower-case form.       *)
(***************************************************************************)
ToLower(w) == CASE w = "Budget" -> "budget" [] OTHER -> w

KeywordsIn(w) ==
  CASE w = "this" -> {"hi"}
    [] w \in {"contract", "terms", "agreement", "budget", "financial", "cost", "project",
              "proposal", "timeline", "hello", "hi", "hey", "help", "tata", "director",
              "board", "web search", "google", "internet"} -> {w}
    [] OTHER -> {}

Includes(input, kw) == \E i \in 1..Len(input) : kw \in KeywordsIn(ToLower(input[i]))
IncludesAny(input, kws) == \E kw \in kws : Includes(input, kw)

sampleDocs ==
  << [fileId |-> "1RKUniO9hI4611Q0G7_trPIMV3RSAAiLD", fileName |-> "US_TERMS_COND-0056.pdf",
      fileLink |-> "https://drive.google.com/file/d/1RKUniO9hI4611Q0G7_trPIMV3RSAAiLD/view"],
     [fileId |-> "2ABCdef789xyz", fileName |-> "Project_Proposal_2024.docx",
      fileLink |-> "https://drive.google.com/file/d/2ABCdef789xyz/view"],
     [fileId |-> "3XYZ123abc", fileName |-> "Financial_Report_Q3.xlsx",
      fileLink |-> "https://drive.google.com/file/d/3XYZ123abc/view"] >>

\* the text of one mock reply: a fenced, indented JSON object
MockMember(key, value, last) ==
  <<" ", " ", KeyTok[key], " ">> \o value \o (IF last THEN <<>> ELSE <<",">>) \o <<LF>>
MockStr(w) == <<Q, w, Q>>
MockText(answer, fileId, fileName, fileLink, from, to, searchInfo) ==
  <<BT, BT, BT, "json", LF, "{", LF>>
  \o MockMember("answer", <<Q>> \o answer \o <<Q>>, FALSE)
  \o MockMember("FileID", fileId, FALSE)
  \o MockMember("FileName", fileName, FALSE)
  \o MockMember("FileLink", fileLink, FALSE)
  \o MockMember("From", from, FALSE)
  \o MockMember("To", to, searchInfo = <<>>)
  \o (IF searchInfo = <<>> THEN <<>> ELSE MockMember("searchInfo", searchInfo, TRUE))
  \o <<"}", LF, BT, BT, BT>>
MockDoc(answer, d, from, to) ==
  MockText(answer, MockStr(d.fileId), MockStr(d.fileName), MockStr(d.fileLink),
           <<from>>, <<to>>, <<>>)
MockNoDoc(answer) ==
  MockText(answer, <<"null">>, <<"null">>, <<"null">>, <<"null">>, <<"null">>, <<>>)

generateMockChatResponse(userInput) ==
  IF IncludesAny(userInput, {"contract", "terms", "agreement"})
  THEN MockDoc(<<"According to the contract terms, ...">>, sampleDocs[1], "411", "414")
  ELSE IF IncludesAny(userInput, {"budget", "financial", "cost"})
  THEN MockDoc(<<"The Q3 financial report shows ...">>, sampleDocs[3], "89", "95")
  ELSE IF IncludesAny(userInput, {"project", "proposal", "timeline"})
  THEN MockDoc(<<"The project proposal outlines ...">>, sampleDocs[2], "25", "32")
  ELSE IF IncludesAny(userInput, {"hello", "hi", "hey", "good morning", "good afternoon",
                                  "good evening"})
  THEN MockNoDoc(<<"Hello! I'm your AI document assistant. ...">>)
  ELSE IF IncludesAny(userInput, {"help", "what can you do", "how do you work"})
  THEN MockNoDoc(<<"I can help you find information ...">>)
  ELSE IF IncludesAny(userInput, {"tata", "director", "board"})
  THEN MockText(<<"Based on the Tata Industries board documentation, ...">>,
                MockStr("TATA_BOARD_2024"), MockStr("Tata_Industries_Board_Structure.pdf"),
                MockStr("https://drive.google.com/file/d/TATA_BOARD_2024/view"),
                <<"15">>, <<"28">>, <<>>)
  ELSE IF IncludesAny(userInput, {"web search", "search the web", "google", "internet"})
  THEN MockText(<<"Here are the results from my web search:", LF, LF, "1. ", "*", "*",
                  "Example.com", "*", "*", " - This is a placeholder website ...", LF,
                  "2. ", "*", "*", "Sample.org", "*", "*", " - Another placeholder ...",
                  LF, LF, "Would you like me to search for something specific?">>,
                MockStr("WebSearch"), MockStr("Web Search Results"),
                MockStr("https://www.google.com"), <<"0">>, <<"0">>,
                <<Q, "https://example.com - Example Domain", LF,
                  "https://sample.org - Sample Organization", Q>>)
  ELSE MockNoDoc(<<"Hello! I'm your document assistant. ...">>)

(***************************************************************************)
(* The chat handler, between two awaits: pure steps                        *)
(***************************************************************************)
Placeholder == <<"Processing your request...">>
NoClearAnswer ==
  <<"I received a response, but it did not contain a clear answer. Please try rephrasing your question.">>
UnexpectedError ==
  <<"An unexpected error occurred while interpreting the chatbot's response format.">>

NoChatResponse == [isNull |-> TRUE, output |-> VUndef]
ChatResponse(out) == [isNull |-> FALSE, output |-> out]

\* jsonString -> outputData of cases 1 and 2 and of the final string path:
\* strip a markdown fence, clean, JSON.parse
ParseClean(text, m) == JSONParse(CleanString(IF m.found THEN m.group ELSE text))
ParseOutputString(text) == ParseClean(text, CodeBlockMatch(text))

Failed == [threw |-> TRUE, cr |-> NoChatResponse]
Passed(cr) == [threw |-> FALSE, cr |-> cr]

\* cases 1 and 2: output is a string, r what parsing it gave
OutputString(out, r) == Passed(IF r.ok THEN ChatResponse(r.val) ELSE ChatResponse(out))
\* cases 4 and 5: the parsed body itself becomes the output
WholeBody(pr) == IF pr.t = "obj" THEN VObj(pr.top) ELSE [t |-> pr.t, v |-> pr.v, o |-> EmptyObj]

\* The body of a 2xx reply: JSON.parse(responseText) and the cases 1 to 5.
\* pr is the parsed body, or "invalid" when JSON.parse rejects the text.
\* Failed: an exception inside the try (JSON.parse, or the property access
\* on null), rethrown as an invalid JSON response.
ProcessBody(pr) ==
  IF pr.t \in {"invalid", "null"} THEN Failed
  ELSE IF pr.t = "obj" /\ VTruthy(pr.output)
       THEN IF pr.output.t = "str"
            THEN OutputString(pr.output, ParseOutputString(pr.output.v))
            ELSE IF pr.output.t = "obj"
                 THEN Passed(ChatResponse(pr.output))
                 ELSE Passed(NoChatResponse)
       ELSE IF pr.t = "obj" /\ Truthy(pr.top.answer)
            THEN Passed(ChatResponse(WholeBody(pr)))
            ELSE Passed(ChatResponse(WholeBody(pr)))

\* the catch block of the retry loop's try: the mock reply, parsed when its
\* output is JSON as it stands
MockOutput(text, r) == IF r.ok THEN ChatResponse(r.val) ELSE ChatResponse(VStr(text))
MockParse(text) == MockOutput(text, JSONParse(text))
MockFallback(chatInput) == MockParse(generateMockChatResponse(chatInput))

NoDocRef ==
  [present |-> FALSE, fileId |-> Undef, fileName |-> Undef, fileLink |-> Undef,
   from |-> Undef, to |-> Undef]
DocRef(p) ==
  [present |-> TRUE, fileId |-> p.FileID, fileName |-> p.FileName, fileLink |-> p.FileLink,
   from |-> p.From, to |-> p.To]

Message(type, content, ts, ref, si) ==
  [type |-> type, content |-> content, timestamp |-> ts, documentReference |-> ref,
   searchInfo |-> si]

NotApplicable == Str(<<"Not Applicable">>)

\* the structured answer the handler read, kept beside the message it built
NoParsed == [some |-> FALSE, p |-> EmptyObj]
Parsed(p) == [some |-> TRUE, p |-> p]
Built(msg, parsed) == [msg |-> msg, parsed |-> parsed]

\* documentReference of the main path
MainDocRef(p) == IF Truthy(p.FileID) /\ p.FileID # NotApplicable THEN DocRef(p) ELSE NoDocRef
\* documentReference of the string path
FallbackDocRef(p) == IF Truthy(p.FileID) THEN DocRef(p) ELSE NoDocRef
\* searchInfo of the main path: a truthy non-string is JSON-stringified
MainSearchInfo(p) ==
  IF Truthy(p.searchInfo) /\ p.searchInfo.t # "str"
  THEN Str(StringifyScalar(p.searchInfo))
  ELSE p.searchInfo

\* the initial aiMessage with its content replaced
\* (faulty variant: the content of the initial aiMessage is left as it is)
PlaceholderKept(ts, text) == Message("ai", Str(Placeholder), ts, NoDocRef, Undef)
WithContent(ts, text) == Message("ai", Str(text), ts, NoDocRef, Undef)

\* the main path: output is an object with a truthy answer.  A truthy answer
\* that is no string has no replace method: the outer catch.
BuildMain(parsedData, ts) ==
  IF parsedData.answer.t # "str"
  THEN Built(WithContent(ts, UnexpectedError), Parsed(parsedData))
  ELSE Built(Message("ai", Str(formatChatbotResponse(parsedData.answer.v)), ts,
                     MainDocRef(parsedData), MainSearchInfo(parsedData)),
             Parsed(parsedData))

\* the string path: output is the string text, r what parsing it gave.  It
\* sets content and documentReference only.
BuildFromString(text, r, ts) ==
  IF ~r.ok \/ r.val.t = "null" THEN Built(WithContent(ts, text), NoParsed)
  ELSE IF r.val.t = "obj" /\ Truthy(r.val.o.answer)
  THEN IF r.val.o.answer.t # "str"
       THEN Built(WithContent(ts, text), Parsed(r.val.o))
       ELSE Built(Message("ai", Str(formatChatbotResponse(r.val.o.answer.v)), ts,
                          FallbackDocRef(r.val.o), Undef),
                  Parsed(r.val.o))
  ELSE Built(WithContent(ts, NoClearAnswer),
             IF r.val.t = "obj" THEN Parsed(r.val.o) ELSE NoParsed)

\* from "let aiMessage" to the end of the final parsing
BuildAiMessage(cr, ts) ==
  IF VTruthy(cr.output) /\ cr.output.t = "obj" /\ Truthy(cr.output.o.answer)
  THEN BuildMain(cr.output.o, ts)
  ELSE IF VTruthy(cr.output) /\ cr.output.t = "str"
  THEN BuildFromString(cr.output.v, ParseOutputString(cr.output.v), ts)
  ELSE Built(WithContent(ts, NoClearAnswer),
             IF cr.output.t = "obj" THEN Parsed(cr.output.o) ELSE NoParsed)

(***************************************************************************)
(* MemStorage: the chat history map                                        *)
(***************************************************************************)
getChatHistory(h, sessionId) == IF sessionId \in DOMAIN h THEN h[sessionId] ELSE <<>>

\* (faulty variant: the entry is put in front of the session's entries)
savePrepended(h, chat, id) ==
  [k \in DOMAIN h \cup {chat.session_id} |->
     IF k = chat.session_id
     THEN <<[id |-> id, session_id |-> chat.session_id, message |-> chat.message]>>
          \o getChatHistory(h, chat.session_id)
     ELSE h[k]]
saveChatMessage(h, chat, id) ==
  [k \in DOMAIN h \cup {chat.session_id} |->
     IF k = chat.session_id
     THEN Append(getChatHistory(h, chat.session_id),
                 [id |-> id, session_id |-> chat.session_id, message |-> chat.message])
     ELSE h[k]]

getAllChatSessions(h) == DOMAIN h

\* (faulty variant: the whole map is cleared)
deleteEverySession(h, sessionId) == [k \in {} |-> <<>>]
deleteChatSession(h, sessionId) == [k \in DOMAIN h \ {sessionId} |-> h[k]]

(***************************************************************************)
(* Inputs of the model                                                     *)
(***************************************************************************)
SessionIds == {"s1", "s2"}
Chars == {"a", " ", BT}
Answers == UNION {[1..n -> Chars] : n \in 0..MaxLen}

FileChoices ==
  { [FileID |-> Null, FileName |-> Null, FileLink |-> Null, From |-> Null, To |-> Null],
    [FileID |-> Str(<<>>), FileName |-> Null, FileLink |-> Null, From |-> Null, To |-> Null],
    [FileID |-> NotApplicable, FileName |-> NotApplicable, FileLink |-> NotApplicable,
     From |-> Num("0"), To |-> Num("0")],
    [FileID |-> Str(<<"F1">>), FileName |-> Str(<<"doc.pdf">>),
     FileLink |-> Str(<<"https://drive.google.com/file/d/F1/view">>),
     From |-> Num("5"), To |-> Num("7")] }
SearchChoices == {Undef, Str(<<"https://example.com">>), Num("7"), Num("0")}

MkPayload(answer, f, si) ==
  [answer |-> answer, FileID |-> f.FileID, FileName |-> f.FileName, FileLink |-> f.FileLink,
   From |-> f.From, To |-> f.To, searchInfo |-> si]

\* the answer payloads of the model: every answer with one document and one
\* searchInfo, and one answer with every document and searchInfo
FileF1 == CHOOSE f \in FileChoices : f.FileID = Str(<<"F1">>)
Payloads ==
  {MkPayload(a, FileF1, Str(<<"https://example.com">>)) :
     a \in {Undef, Num("5")} \cup {Str(x) : x \in Answers}}
  \cup {MkPayload(Str(<<"a">>), f, si) : f \in FileChoices, si \in SearchChoices}

\* the bodies the webhook may send for the payload p
PR(t, out, top) == [t |-> t, v |-> <<>>, output |-> out, top |-> top]
Fence(text) == <<BT, BT, BT, "json", LF>> \o text \o <<LF, BT, BT, BT>>
ShapeBody(shape, p) ==
  CASE shape = "json_string" -> PR("obj", VStr(Stringify(p)), EmptyObj)
    [] shape = "fenced_json" -> PR("obj", VStr(Fence(Stringify(p))), EmptyObj)
    [] shape = "nested_object" -> PR("obj", VObj(p), EmptyObj)
    [] shape = "top_level" -> PR("obj", VUndef, p)
    [] shape = "twice_encoded" ->
         PR("obj", VStr(StringifyScalar(Str(Stringify(p)))), EmptyObj)
    [] shape = "plain_string" -> PR("obj", VStr(<<"a", " ", "a">>), EmptyObj)
    [] shape = "number_output" -> PR("obj", VScalar(Num("7")), EmptyObj)
    [] shape = "empty_object" -> PR("obj", VUndef, EmptyObj)
    [] shape = "number_body" -> [PR("num", VUndef, EmptyObj) EXCEPT !.v = <<"5">>]
    [] shape = "null_body" -> PR("null", VUndef, EmptyObj)
    [] shape = "invalid_body" -> PR("invalid", VUndef, EmptyObj)
AnswerShapes == {"json_string", "fenced_json", "nested_object", "top_level"}
Shapes ==
  AnswerShapes \cup {"twice_encoded", "plain_string", "number_output", "empty_object",
                     "number_body", "null_body", "invalid_body"}

\* one call of the webhook as the handler sees it
Outcomes ==
  {[kind |-> "network", shape |-> "none"], [kind |-> "status", shape |-> "none"]}
  \cup {[kind |-> "ok", shape |-> sh] : sh \in Shapes}

\* what the call was, seen from outside the handler
CallClass(o) ==
  IF o.kind = "ok"
  THEN (IF o.shape \in {"null_body", "invalid_body"} THEN "unparseable" ELSE "ok")
  ELSE o.kind

(***************************************************************************)
(* State                                                                   *)
(***************************************************************************)
VARIABLES
  chatHistory,  \* MemStorage.chatHistory: session id -> saved entries
  req,          \* the POST /api/chat requests: where each handler stands
  nextId,       \* the number of entries saved so far (their ids are fresh)
  now,          \* Date.now()
  payload,      \* the answer the external workflow gives in this run
  saved,        \* per session id, what was saved under it since its last deletion
  userSessions, \* MemStorage.userSessions: session id -> user session
  authReq,      \* the login or logout request being handled, and its response
  authLog,      \* per session id issued: when it was created, whether it was logged out
  pdf,          \* the GET /api/proxy/pdf/:fileId request
  docs,         \* the POST /api/documents request
  view,         \* the DocumentPreview component: its state and what it last drew
  fmt,          \* an answer given to formatChatbotResponse, and the result
  side,         \* the Sidebar component: the sessions listed, its search and page
  modal,        \* the DocumentListModal component: its documents, search and page
  thread        \* the chat thread of the client, its requests in flight

chatVars == <<chatHistory, req, nextId, now, payload, saved>>
authVars == <<userSessions, authReq, authLog>>
uiVars == <<side, modal, thread>>
restVars == <<pdf, docs, view, fmt, side, modal, thread>>
vars == <<chatHistory, req, nextId, now, payload, saved, userSessions, authReq, authLog,
          pdf, docs, view, fmt, side, modal, thread>>

NoMessage == Message("none", Undef, 0, NoDocRef, Undef)
IdleReq ==
  [pc |-> "idle", chatInput |-> <<>>, sessionId |-> "", attempt |-> 0, callLog |-> <<>>,
   shape |-> "none", waits |-> <<>>, status |-> 0, error |-> "", body |-> NoMessage,
   parsed |-> NoParsed, usedMock |-> FALSE]

ChatInputs ==
  {<<>>, <<"contract">>, <<"Budget">>, <<"project">>, <<"this">>, <<"help">>, <<"tata">>,
   <<"web search">>, <<"xyz">>, <<"budget", " ", "contract">>}

(***************************************************************************)
(* MemStorage: users and user sessions.  Time is counted in hours; a       *)
(* session id is the number randomUUID gives, each one new.                *)
(***************************************************************************)
SESSION_HOURS == 24

DefaultUser == [id |-> "u1", username |-> "Suryakanta.Karan", password |-> "Surya@123"]
NoUser == [id |-> "", username |-> "", password |-> ""]
getUserByUsername(username) ==
  IF username = DefaultUser.username THEN DefaultUser ELSE NoUser

createUserSession(us, data) ==
  [k \in DOMAIN us \cup {data.session_id} |-> IF k = data.session_id THEN data ELSE us[k]]

\* (faulty variant: the session stays in the store)
sessionKept(us, sessionId) == us
deleteUserSession(us, sessionId) == [k \in DOMAIN us \ {sessionId} |-> us[k]]

\* (faulty variant: a session is taken as expired from its last hour on)
ExpiredEarly(session, t) == session.expires_at <= t
\* session.expires_at < new Date()
Expired(session, t) == session.expires_at < t

\* the session found, and the store after the lookup: an expired session is
\* removed by the lookup that finds it expired
getUserSession(us, sessionId, t) ==
  IF sessionId \notin DOMAIN us THEN [found |-> FALSE, store |-> us]
  ELSE IF Expired(us[sessionId], t)
       THEN [found |-> FALSE, store |-> deleteUserSession(us, sessionId)]
       ELSE [found |-> TRUE, store |-> us]

(***************************************************************************)
(* requireAuth, POST /api/auth/login: pure steps                           *)
(***************************************************************************)
\* the x-session-id header is missing or empty
NoHeader == 0

AuthResult(pass, message, store) ==
  [pass |-> pass, status |-> IF pass THEN 200 ELSE 401, message |-> message, store |-> store]
\* (faulty variant: a request whose session was not found passes too)
LookedAnyway(r) == AuthResult(TRUE, "", r.store)
Looked(r) ==
  IF r.found THEN AuthResult(TRUE, "", r.store)
  ELSE AuthResult(FALSE, "Invalid or expired session", r.store)
\* pass: next() is called and the handler runs
requireAuth(us, header, t) ==
  IF header = NoHeader THEN AuthResult(FALSE, "Session required", us)
  ELSE Looked(getUserSession(us, header, t))

\* (faulty variant: the password is not compared)
PasswordIgnored(user, password) == TRUE
PasswordMatches(user, password) == user.password = password

LoginReply(status, success, message) ==
  [status |-> status, success |-> success, message |-> message]
\* the response of login to a body that insertUserSchema accepts or rejects
LoginOutcome(user, in) ==
  IF ~in.wellFormed THEN LoginReply(500, FALSE, "Login failed")
  ELSE IF user = NoUser THEN LoginReply(401, FALSE, "Invalid username or password")
  ELSE IF ~PasswordMatches(user, in.password)
  THEN LoginReply(401, FALSE, "Invalid username or password")
  ELSE LoginReply(200, TRUE, "Login successful")

IdleAuthReq ==
  [pc |-> "idle", kind |-> "none", header |-> NoHeader, username |-> "", password |-> "",
   wellFormed |-> TRUE, status |-> 0, ran |-> FALSE, success |-> FALSE, message |-> "",
   sessionId |-> NoHeader]

Usernames == {DefaultUser.username, "nobody"}
Passwords == {DefaultUser.password, "wrong"}
\* what a client may send as x-session-id: nothing, an id that was or will be
\* issued, an id that never is
Headers == 0..(MaxSessions + 1)
\* the hours that pass between two requests
ClockSteps == {12, 13}

(***************************************************************************)
(* GET /api/proxy/pdf/:fileId: pure steps.  A body is a sequence of bytes, *)
(* written as characters.                                                  *)
(***************************************************************************)
\* the candidate URLs of the file id "F"
urls ==
  <<"https://drive.google.com/uc?export=download&id=F",
    "https://drive.usercontent.google.com/download?id=F&export=download",
    "https://docs.google.com/document/d/F/export?format=pdf">>

PdfMagic == <<"%", "P", "D", "F">>
\* (faulty variant: every body of an OK response is taken as a PDF)
isPdfAlways(buffer) == TRUE
isPdf(buffer) == Len(buffer) >= 4 /\ SubSeq(buffer, 1, 4) = PdfMagic

\* one fetch of a candidate URL: it throws, answers non-OK, answers OK with a
\* body that cannot be read, or answers OK with the bytes
PdfBodies ==
  {<<"%", "P", "D", "F", "-", "a">>, <<"%", "P", "D", "F", "-", "b">>, <<"%", "P", "D">>,
   <<"<", "h", "t", "m", "l", ">">>, <<>>}
PdfOutcomes ==
  {[kind |-> k, bytes |-> <<>>] : k \in {"throw", "status", "unreadable"}}
  \cup {[kind |-> "ok", bytes |-> b] : b \in PdfBodies}
\* the response is OK and its body is a PDF
YieldsPdf(o) == o.kind = "ok" /\ isPdf(o.bytes)

NotFound == <<"PDF not found or not publicly accessible.">>
IdlePdf == [pc |-> "idle", i |-> 1, log |-> <<>>, status |-> 0, body |-> <<>>]

(***************************************************************************)
(* POST /api/documents: pure steps                                         *)
(***************************************************************************)
mockDocuments ==
  <<"US_TERMS_COND-0056.pdf", "Project_Proposal_2024.docx", "Financial_Report_Q3.xlsx",
    "Contract_Agreement.pdf", "Technical_Specification.docx", "Budget_Analysis.xlsx",
    "User_Manual.pdf", "Meeting_Minutes.docx", "Sales_Data.csv",
    "Legal_Documentation.pdf", "Marketing_Strategy.docx", "Inventory_Report.xlsx",
    "Training_Materials.pdf", "Policy_Guidelines.docx", "Performance_Metrics.csv">>

\* the bodies the file-load-history webhook may send: document lists, a JSON
\* value that is no list, a text that is no JSON
DocsBodies ==
  {[json |-> TRUE, value |-> <<"a.pdf", "b.docx">>], [json |-> TRUE, value |-> <<>>],
   [json |-> TRUE, value |-> <<"null">>], [json |-> FALSE, value |-> <<"<html>">>]}
DocsOutcomes ==
  {[kind |-> k, body |-> [json |-> FALSE, value |-> <<>>]] :
     k \in {"network", "timeout", "status"}}
  \cup {[kind |-> "ok", body |-> b] : b \in DocsBodies}

\* (faulty variant: a body that is no JSON makes the endpoint fail)
DocumentsStrict(o) ==
  IF o.kind = "ok"
  THEN IF o.body.json THEN [status |-> 200, body |-> o.body.value]
       ELSE [status |-> 500, body |-> <<"Failed to fetch documents">>]
  ELSE [status |-> 200, body |-> mockDocuments]
\* the response of the endpoint after its fetch ended as o
DocumentsReply(o) ==
  IF o.kind = "ok" /\ o.body.json THEN [status |-> 200, body |-> o.body.value]
  ELSE [status |-> 200, body |-> mockDocuments]

IdleDocs ==
  [pc |-> "idle", outcome |-> [kind |-> "none", body |-> [json |-> FALSE, value |-> <<>>]],
   status |-> 0, body |-> <<>>]

(***************************************************************************)
(* DocumentPreview: pure steps.  A missing from or to is 0.                *)
(***************************************************************************)
LINE_HEIGHT == 16
ZOOM_START == 100
ZOOM_STEP == 25
ZOOM_MAX == 200
ZOOM_MIN == 50

\* (faulty variant: the zoom level is not capped)
ZoomInUncapped(zoomLevel) == zoomLevel + ZOOM_STEP
\* newZoom of handleZoomIn and of handleZoomOut
ZoomIn(zoomLevel) == MinOf({zoomLevel + ZOOM_STEP, ZOOM_MAX})
ZoomOut(zoomLevel) == MaxOf({zoomLevel - ZOOM_STEP, ZOOM_MIN})

\* Math.floor(viewport.height / lineHeight), the viewport scaled by zoomLevel / 100
linesPerPage(pageHeight, zoomLevel) == (pageHeight * zoomLevel) \div (100 * LINE_HEIGHT)
\* Math.ceil(startLine / linesPerPage)
CeilDiv(a, b) == (a + b - 1) \div b

NotDrawn == [page |-> 0, L |-> 0, kind |-> "unrendered", named |-> 0, textOk |-> TRUE]
Drawn(pageNum, L, kind, named, textOk) ==
  [page |-> pageNum, L |-> L, kind |-> kind, named |-> named, textOk |-> textOk]

\* what addHighlightOverlay draws on the page pageNum just rendered; currentPage
\* is the component state the function closes over
addHighlightOverlay(from, to, pageNum, currentPage, L, textOk) ==
  IF from = 0 \/ to = 0 THEN Drawn(pageNum, L, "none", 0, textOk)
  ELSE IF ~textOk THEN Drawn(pageNum, L, "fallback", 0, textOk)
  ELSE IF from <= currentPage * L /\ to >= (currentPage - 1) * L + 1
  THEN Drawn(pageNum, L, "rect", 0, textOk)
  ELSE Drawn(pageNum, L, "indicator", CeilDiv(from, L), textOk)

\* renderPage(pdf, pageNum) in a closure with the state v
renderPage(v, pageNum, textOk) ==
  addHighlightOverlay(v.from, v.to, pageNum, v.currentPage,
                      linesPerPage(v.pageHeight, v.zoomLevel), textOk)

PageHeights == {32, 48}
ViewInputs ==
  {[from |-> f, to |-> t, pageHeight |-> h] : f \in 0..MaxLine, t \in 0..MaxLine,
                                               h \in PageHeights}
\* the component after the PDF was loaded: the effect will render page 1
ViewStart(in) ==
  [zoomLevel |-> ZOOM_START, currentPage |-> 1, totalPages |-> MaxPages,
   pageHeight |-> in.pageHeight, from |-> in.from, to |-> in.to, effect |-> TRUE,
   last |-> "load", drawn |-> NotDrawn]
IdleView == ViewStart([from |-> 0, to |-> 0, pageHeight |-> 32])

(***************************************************************************)
(* formatChatbotResponse applied to answers with asterisks                 *)
(***************************************************************************)
FormatChars == {"*", "b"}
FormatInputs == UNION {[1..n -> FormatChars] : n \in 0..(MaxLen + 2)}
FmtStart(answer) == [answer |-> answer, result |-> <<>>, done |-> FALSE]
IdleFmt == FmtStart(<<>>)

(***************************************************************************)
(* Sidebar and DocumentListModal: search and pagination.  A listed item is *)
(* a number; its text is the preview text of a session or the name of a    *)
(* document.                                                               *)
(***************************************************************************)
SIDEBAR_ITEMS == 5
MODAL_ITEMS == 8

ItemText(id) == IF id % 2 = 1 THEN "alpha" ELSE "beta"
SearchQueries == {"", "a", "alpha", "z"}
\* text.toLowerCase().includes(searchQuery.toLowerCase())
TextIncludes(text, searchQuery) ==
  CASE searchQuery = "" -> TRUE
    [] searchQuery = "a" -> text \in {"alpha", "beta"}
    [] searchQuery = "alpha" -> text = "alpha"
    [] OTHER -> FALSE

\* the items of a set, the latest first
RECURSIVE LatestFirst(_)
LatestFirst(S) == IF S = {} THEN <<>> ELSE <<MaxOf(S)>> \o LatestFirst(S \ {MaxOf(S)})

Keep(list, searchQuery) == SelectSeq(list, LAMBDA id : TextIncludes(ItemText(id), searchQuery))
\* Array.prototype.slice(start, end)
Slice(list, start, end) ==
  IF start >= Len(list) THEN <<>> ELSE SubSeq(list, start + 1, MinOf({end, Len(list)}))
\* Math.ceil(filtered.length / itemsPerPage)
PageCount(filtered, itemsPerPage) == CeilDiv(Len(filtered), itemsPerPage)
Paginated(filtered, page, itemsPerPage) ==
  Slice(filtered, (page - 1) * itemsPerPage, page * itemsPerPage)
\* the Previous and Next buttons are rendered
ControlsShown(filtered, itemsPerPage) ==
  Len(filtered) > 0 /\ PageCount(filtered, itemsPerPage) > 1
\* setPage(prev => Math.max(prev - 1, 1)), setPage(prev => Math.min(prev + 1, totalPages))
PrevPage(page) == MaxOf({page - 1, 1})
NextPage(page, totalPages) == MinOf({page + 1, totalPages})

filteredSessions(sb) == Keep(LatestFirst(sb.sessions), sb.searchQuery)
totalHistoryPages(sb) == PageCount(filteredSessions(sb), SIDEBAR_ITEMS)
paginatedSessions(sb) == Paginated(filteredSessions(sb), sb.historyPage, SIDEBAR_ITEMS)

filteredDocuments(md) == Keep(md.documents, md.searchQuery)
totalPages(md) == PageCount(filteredDocuments(md), MODAL_ITEMS)
paginatedDocuments(md) == Paginated(filteredDocuments(md), md.currentPage, MODAL_ITEMS)

Elements(list) == {list[i] : i \in 1..Len(list)}
SessionPool == 1..MaxListed
\* the lists /api/documents may give: none, the 15 of the mock list, 9, 8
DocumentLists == {[i \in 1..n |-> i] : n \in {0, 8, 9, Len(mockDocuments)}}
SideStart(sessions) ==
  [sessions |-> sessions, searchQuery |-> "", historyPage |-> 1, effect |-> FALSE]
ModalStart(documents) == [documents |-> documents, searchQuery |-> "", currentPage |-> 1]

(***************************************************************************)
(* Home and ChatArea: the chat thread.  A session id is a number; a        *)
(* message carries the session of the request it belongs to.               *)
(***************************************************************************)
Welcome == [session |-> 0, type |-> "welcome"]
ThreadMessage(session, type) == [session |-> session, type |-> type]
\* the effect on [sessionId, chatHistory]: the history of the session, or
\* the welcome message when it has none
ShownHistory(chatHistoryData) ==
  IF Len(chatHistoryData) > 0 THEN chatHistoryData ELSE <<Welcome>>
\* what the server has saved when it answers a chat request of the session
SavedExchange(session) ==
  <<ThreadMessage(session, "human"), ThreadMessage(session, "ai")>>
\* onSuccess: setMessages(prev => [...prev, aiResponse])
onSuccess(messages, aiResponse) == Append(messages, aiResponse)
IdleThread ==
  [sessionId |-> 1, issued |-> 1, messages |-> <<Welcome>>, inflight |-> {},
   hist |-> [k \in 1..MaxChats |-> <<>>], loaded |-> <<>>, sent |-> 0]
IdleSide == SideStart({})
IdleModal == ModalStart(<<>>)

(***************************************************************************)
(* Initial states                                                          *)
(***************************************************************************)
ChatInit(payloads) ==
  /\ chatHistory = [k \in {} |-> <<>>]
  /\ req = [r \in 1..NumReq |-> IdleReq]
  /\ nextId = 1
  /\ now = 0
  /\ payload \in payloads
  /\ saved = [s \in SessionIds |-> <<>>]

AuthInit ==
  /\ userSessions = [k \in {} |-> NoUser]
  /\ authReq = IdleAuthReq
  /\ authLog = [k \in {} |-> NoUser]

RestIdle ==
  /\ pdf = IdlePdf
  /\ docs = IdleDocs
  /\ view = IdleView
  /\ fmt = IdleFmt
  /\ side = IdleSide
  /\ modal = IdleModal
  /\ thread = IdleThread

InitWith(payloads) == ChatInit(payloads) /\ AuthInit /\ RestIdle

(***************************************************************************)
(* POST /api/chat                                                          *)
(***************************************************************************)
\* the loop condition of the retry loop, and the condition of its wait
LoopCond(attempt) == attempt <= MAX_RETRIES
ShouldWait(attempt) == attempt < MAX_RETRIES
WaitTime(attempt) == Pow2(attempt) * RETRY_DELAY_BASE_MS

\* after a reply that parsed: the loop is left at once
\* (faulty variant: the loop goes on after a reply that parsed)
ContinueOnSuccess == FALSE
BreakOnSuccess == TRUE

\* validation, and the save of the human message
Human(chatInput, ts) == Message("human", Str(chatInput), ts, NoDocRef, Undef)
\* (faulty variant: only chatInput is validated)
MissingChatInput(chatInput, sessionId) == chatInput = <<>>
\* !chatInput || !sessionId
MissingParameters(chatInput, sessionId) == chatInput = <<>> \/ sessionId = ""
Receive(r, chatInput, sessionId) ==
  /\ req[r].pc = "idle"
  /\ IF MissingParameters(chatInput, sessionId)
     THEN /\ req' = [req EXCEPT ![r] = [@ EXCEPT !.pc = "done", !.chatInput = chatInput,
                                           !.sessionId = sessionId, !.status = 400,
                                           !.error = "Missing required parameters"]]
          /\ UNCHANGED <<chatHistory, nextId, saved>>
     ELSE /\ chatHistory' = saveChatMessage(chatHistory,
                               [session_id |-> sessionId, message |-> Human(chatInput, now)],
                               nextId)
          /\ saved' = [saved EXCEPT ![sessionId] =
                         Append(@, [id |-> nextId, session_id |-> sessionId,
                                    message |-> Human(chatInput, now)])]
          /\ nextId' = nextId + 1
          /\ req' = [req EXCEPT ![r] = [@ EXCEPT !.pc = "fetch", !.chatInput = chatInput,
                                           !.sessionId = sessionId, !.attempt = 1]]
  /\ UNCHANGED <<now, payload, authVars, restVars>>

\* from the end of the retry loop to the save of the AI message: lost says
\* that the loop left no chatResponse, built is the message made
FinishWith(r, base, lost, built) ==
  /\ chatHistory' = saveChatMessage(chatHistory,
                       [session_id |-> base.sessionId, message |-> built.msg], nextId)
  /\ saved' = [saved EXCEPT ![base.sessionId] =
                 Append(@, [id |-> nextId, session_id |-> base.sessionId,
                            message |-> built.msg])]
  /\ nextId' = nextId + 1
  /\ req' = [req EXCEPT ![r] = [base EXCEPT !.pc = "respond", !.body = built.msg,
                                   !.parsed = built.parsed, !.usedMock = lost]]
\* (faulty variant: the mock fallback is never taken)
FallbackSkipped(res) == FALSE
Lost(res) == res.threw \/ res.cr.isNull
Finish(r, base, res) ==
  FinishWith(r, base, Lost(res),
             BuildAiMessage(IF Lost(res) THEN MockFallback(base.chatInput) ELSE res.cr, now))

\* after the call of this pass came back as res
AfterCall(r, base, res) ==
  IF res.threw /\ ShouldWait(base.attempt)
  THEN /\ req' = [req EXCEPT ![r] = [base EXCEPT !.pc = "wait",
                                       !.waits = Append(@, WaitTime(base.attempt))]]
       /\ UNCHANGED <<chatHistory, nextId, saved>>
  ELSE IF (res.threw \/ ~BreakOnSuccess) /\ LoopCond(base.attempt + 1)
  THEN /\ req' = [req EXCEPT ![r] = [base EXCEPT !.attempt = @ + 1]]
       /\ UNCHANGED <<chatHistory, nextId, saved>>
  ELSE Finish(r, base, res)

Logged(r, o, res) ==
  [req[r] EXCEPT !.callLog = Append(@, CallClass(o)),
                 !.shape = IF res.threw THEN @ ELSE o.shape]
Called(r, o, res) == AfterCall(r, Logged(r, o, res), res)

\* one pass of the retry loop: the call and what follows it up to the next await
Attempt(r, o) ==
  /\ req[r].pc = "fetch"
  /\ Called(r, o, IF o.kind = "ok" THEN ProcessBody(ShapeBody(o.shape, payload)) ELSE Failed)
  /\ UNCHANGED <<now, payload, authVars, restVars>>

\* the backoff timer fires: the next pass of the loop, if there is one
WaitDone(r) ==
  /\ req[r].pc = "wait"
  /\ IF LoopCond(req[r].attempt + 1)
     THEN /\ req' = [req EXCEPT ![r] = [@ EXCEPT !.pc = "fetch", !.attempt = @ + 1]]
          /\ UNCHANGED <<chatHistory, nextId, saved>>
     ELSE Finish(r, req[r], Failed)
  /\ UNCHANGED <<now, payload, authVars, restVars>>

\* res.json(aiMessage)
Respond(r) ==
  /\ req[r].pc = "respond"
  /\ req' = [req EXCEPT ![r] = [@ EXCEPT !.pc = "done", !.status = 200]]
  /\ UNCHANGED <<chatHistory, nextId, now, payload, saved, authVars, restVars>>

(***************************************************************************)
(* GET /api/chat/:sessionId, GET /api/sessions, DELETE /api/sessions/:id   *)
(***************************************************************************)
GetChat(sessionId) == getChatHistory(chatHistory, sessionId)
GetSessions == getAllChatSessions(chatHistory)

DeleteSession(sessionId) ==
  /\ chatHistory' = deleteChatSession(chatHistory, sessionId)
  /\ saved' = [saved EXCEPT ![sessionId] = <<>>]
  /\ UNCHANGED <<req, nextId, now, payload, authVars, restVars>>

Tick ==
  /\ now < MaxNow
  /\ now' = now + 1
  /\ UNCHANGED <<chatHistory, req, nextId, payload, saved, authVars, restVars>>

(***************************************************************************)
(* POST /api/auth/login, POST /api/auth/logout                             *)
(***************************************************************************)
LoginArrives(username, password, wellFormed) ==
  /\ authReq.pc # "pending"
  /\ nextId <= MaxSessions
  /\ authReq' = [IdleAuthReq EXCEPT !.pc = "pending", !.kind = "login",
                                    !.username = username, !.password = password,
                                    !.wellFormed = wellFormed]
  /\ UNCHANGED <<chatVars, userSessions, authLog, restVars>>

LogoutArrives(header) ==
  /\ authReq.pc # "pending"
  /\ authReq' = [IdleAuthReq EXCEPT !.pc = "pending", !.kind = "logout", !.header = header]
  /\ UNCHANGED <<chatVars, userSessions, authLog, restVars>>

\* the login handler answers with o
LoginAnswers(o) ==
  /\ authReq' = [authReq EXCEPT !.pc = "done", !.status = o.status, !.ran = TRUE,
                                !.success = o.success, !.message = o.message,
                                !.sessionId = IF o.success THEN nextId ELSE NoHeader]
  /\ IF o.success
     THEN /\ userSessions' =
               createUserSession(userSessions,
                                 [user_id |-> DefaultUser.id, session_id |-> nextId,
                                  expires_at |-> now + SESSION_HOURS])
          /\ authLog' = [k \in DOMAIN authLog \cup {nextId} |->
                           IF k = nextId THEN [at |-> now, out |-> FALSE] ELSE authLog[k]]
          /\ nextId' = nextId + 1
     ELSE UNCHANGED <<userSessions, authLog, nextId>>

HandleLogin ==
  /\ authReq.pc = "pending" /\ authReq.kind = "login"
  /\ LoginAnswers(LoginOutcome(getUserByUsername(authReq.username), authReq))
  /\ UNCHANGED <<chatHistory, req, now, payload, saved, restVars>>

\* requireAuth gave a; when it passed, the logout handler runs
LogoutAnswers(a) ==
  /\ authReq' = [authReq EXCEPT !.pc = "done", !.status = a.status, !.ran = a.pass,
                                !.success = a.pass,
                                !.message = IF a.pass THEN "Logged out successfully"
                                            ELSE a.message]
  /\ userSessions' = IF a.pass THEN deleteUserSession(a.store, authReq.header) ELSE a.store
  /\ authLog' = IF a.pass /\ authReq.header \in DOMAIN authLog
                THEN [authLog EXCEPT ![authReq.header].out = TRUE]
                ELSE authLog

HandleLogout ==
  /\ authReq.pc = "pending" /\ authReq.kind = "logout"
  /\ LogoutAnswers(requireAuth(userSessions, authReq.header, now))
  /\ UNCHANGED <<chatVars, restVars>>

(***************************************************************************)
(* GET /api/proxy/pdf/:fileId, POST /api/documents                         *)
(***************************************************************************)
PdfArrives ==
  /\ pdf.pc # "fetch"
  /\ pdf' = [IdlePdf EXCEPT !.pc = "fetch"]
  /\ UNCHANGED <<chatVars, authVars, uiVars, docs, view, fmt>>

\* one pass of the loop over urls: the fetch ended as o
PdfFetch(o) ==
  /\ pdf.pc = "fetch"
  /\ pdf' =
       IF YieldsPdf(o)
       THEN [pdf EXCEPT !.pc = "done", !.log = Append(@, [url |-> urls[pdf.i], o |-> o]),
                        !.status = 200, !.body = o.bytes]
       ELSE IF pdf.i < Len(urls)
       THEN [pdf EXCEPT !.i = @ + 1, !.log = Append(@, [url |-> urls[pdf.i], o |-> o])]
       ELSE [pdf EXCEPT !.pc = "done", !.log = Append(@, [url |-> urls[pdf.i], o |-> o]),
                        !.status = 404, !.body = NotFound]
  /\ UNCHANGED <<chatVars, authVars, uiVars, docs, view, fmt>>

DocsArrives ==
  /\ docs.pc # "fetch"
  /\ docs' = [IdleDocs EXCEPT !.pc = "fetch"]
  /\ UNCHANGED <<chatVars, authVars, uiVars, pdf, view, fmt>>

DocsFetch(o) ==
  /\ docs.pc = "fetch"
  /\ docs' = [pc |-> "done", outcome |-> o, status |-> DocumentsReply(o).status,
              body |-> DocumentsReply(o).body]
  /\ UNCHANGED <<chatVars, authVars, uiVars, pdf, view, fmt>>

(***************************************************************************)
(* DocumentPreview: the render effect and the handlers                     *)
(***************************************************************************)
\* the effect on [pdfDoc, currentPage, zoomLevel, renderError]
RenderEffect(textOk) ==
  /\ view.effect
  /\ view' = [view EXCEPT !.effect = FALSE, !.last = "effect",
                          !.drawn = renderPage(view, view.currentPage, textOk)]
  /\ UNCHANGED <<chatVars, authVars, uiVars, pdf, docs, fmt>>

\* setZoomLevel(newZoom), then renderPage in the handler's closure; the
\* effect follows when the state changed
ZoomTo(newZoom, handler, textOk) ==
  /\ view' = [view EXCEPT !.zoomLevel = newZoom, !.last = handler,
                          !.effect = @ \/ newZoom # view.zoomLevel,
                          !.drawn = renderPage(view, view.currentPage, textOk)]
  /\ UNCHANGED <<chatVars, authVars, uiVars, pdf, docs, fmt>>
handleZoomIn(textOk) == ZoomTo(ZoomIn(view.zoomLevel), "handleZoomIn", textOk)
handleZoomOut(textOk) == ZoomTo(ZoomOut(view.zoomLevel), "handleZoomOut", textOk)

\* setCurrentPage(newPage), then renderPage(pdfDoc, newPage) in the
\* handler's closure
handlePageChange(newPage, textOk) ==
  /\ newPage >= 1 /\ newPage <= view.totalPages
  /\ view' = [view EXCEPT !.currentPage = newPage, !.last = "handlePageChange",
                          !.effect = @ \/ newPage # view.currentPage,
                          !.drawn = renderPage(view, newPage, textOk)]
  /\ UNCHANGED <<chatVars, authVars, uiVars, pdf, docs, fmt>>

(***************************************************************************)
(* formatChatbotResponse                                                   *)
(***************************************************************************)
Format ==
  /\ ~fmt.done
  /\ fmt' = [fmt EXCEPT !.result = formatChatbotResponse(fmt.answer), !.done = TRUE]
  /\ UNCHANGED <<chatVars, authVars, uiVars, pdf, docs, view>>

(***************************************************************************)
(* Sidebar and DocumentListModal: the handlers                             *)
(***************************************************************************)
\* onChange of the search bar: setSearchQuery; the effect on [searchQuery]
\* follows when it changed
SidebarSearch(value) ==
  /\ ~side.effect
  /\ side' = [side EXCEPT !.searchQuery = value, !.effect = value # side.searchQuery]
  /\ UNCHANGED <<chatVars, authVars, pdf, docs, view, fmt, modal, thread>>

\* the effect: setHistoryPage(1)
SidebarResetPage ==
  /\ side.effect
  /\ side' = [side EXCEPT !.historyPage = 1, !.effect = FALSE]
  /\ UNCHANGED <<chatVars, authVars, pdf, docs, view, fmt, modal, thread>>

SidebarPrevious ==
  /\ ~side.effect
  /\ ControlsShown(filteredSessions(side), SIDEBAR_ITEMS)
  /\ side.historyPage # 1
  /\ side' = [side EXCEPT !.historyPage = PrevPage(@)]
  /\ UNCHANGED <<chatVars, authVars, pdf, docs, view, fmt, modal, thread>>

SidebarNext ==
  /\ ~side.effect
  /\ ControlsShown(filteredSessions(side), SIDEBAR_ITEMS)
  /\ side.historyPage # totalHistoryPages(side)
  /\ side' = [side EXCEPT !.historyPage = NextPage(@, totalHistoryPages(side))]
  /\ UNCHANGED <<chatVars, authVars, pdf, docs, view, fmt, modal, thread>>

\* deleteSessionMutation.mutate(session.id) on a session shown, and the
\* refetch of the session list after invalidateQueries
SidebarDelete(id) ==
  /\ ~side.effect
  /\ id \in Elements(paginatedSessions(side))
  /\ side' = [side EXCEPT !.sessions = @ \ {id}]
  /\ UNCHANGED <<chatVars, authVars, pdf, docs, view, fmt, modal, thread>>

\* a refetch of the session list finds the session of a new chat
SidebarRefetch(id) ==
  /\ id \notin side.sessions
  /\ side' = [side EXCEPT !.sessions = @ \cup {id}]
  /\ UNCHANGED <<chatVars, authVars, pdf, docs, view, fmt, modal, thread>>

\* handleSearchChange: setSearchQuery(value); setCurrentPage(1)
handleSearchChange(value) ==
  /\ modal' = [modal EXCEPT !.searchQuery = value, !.currentPage = 1]
  /\ UNCHANGED <<chatVars, authVars, pdf, docs, view, fmt, side, thread>>

ModalPrevious ==
  /\ ControlsShown(filteredDocuments(modal), MODAL_ITEMS)
  /\ modal.currentPage # 1
  /\ modal' = [modal EXCEPT !.currentPage = PrevPage(@)]
  /\ UNCHANGED <<chatVars, authVars, pdf, docs, view, fmt, side, thread>>

ModalNext ==
  /\ ControlsShown(filteredDocuments(modal), MODAL_ITEMS)
  /\ modal.currentPage # totalPages(modal)
  /\ modal' = [modal EXCEPT !.currentPage = NextPage(@, totalPages(modal))]
  /\ UNCHANGED <<chatVars, authVars, pdf, docs, view, fmt, side, thread>>

(***************************************************************************)
(* Home and ChatArea: the handlers                                         *)
(***************************************************************************)
\* handleSendMessage: the human message is appended and the request sent
handleSendMessage ==
  /\ thread.sent < MaxSends
  /\ thread' = [thread EXCEPT
       !.messages = Append(@, ThreadMessage(thread.sessionId, "human")),
       !.inflight = @ \cup {[n |-> thread.sent + 1, session |-> thread.sessionId]},
       !.sent = @ + 1]
  /\ UNCHANGED <<chatVars, authVars, pdf, docs, view, fmt, side, modal>>

\* the server answers the request r: onSuccess of sendMessageMutation
ThreadAnswer(r) ==
  /\ r \in thread.inflight
  /\ thread' = [thread EXCEPT
       !.hist[r.session] = @ \o SavedExchange(r.session),
       !.messages = onSuccess(@, ThreadMessage(r.session, "ai")),
       !.inflight = @ \ {r}]
  /\ UNCHANGED <<chatVars, authVars, pdf, docs, view, fmt, side, modal>>

\* the request r fails: onError shows a toast
ThreadError(r) ==
  /\ r \in thread.inflight
  /\ thread' = [thread EXCEPT !.inflight = @ \ {r}]
  /\ UNCHANGED <<chatVars, authVars, pdf, docs, view, fmt, side, modal>>

\* the history query of the selected session has new data: the effect
\* replaces the thread
ThreadLoad ==
  /\ thread.hist[thread.sessionId] # thread.loaded
  /\ thread' = [thread EXCEPT !.messages = ShownHistory(thread.hist[thread.sessionId]),
                              !.loaded = thread.hist[thread.sessionId]]
  /\ UNCHANGED <<chatVars, authVars, pdf, docs, view, fmt, side, modal>>

\* setCurrentSessionId(sessionId) and the effect of ChatArea before the
\* history of the session is loaded
Selected(t, sessionId) ==
  [t EXCEPT !.sessionId = sessionId, !.messages = <<Welcome>>, !.loaded = <<>>]

\* handleNewChat: a session id never used before
handleNewChat ==
  /\ thread.issued < MaxChats
  /\ thread' = [Selected(thread, thread.issued + 1) EXCEPT !.issued = @ + 1]
  /\ UNCHANGED <<chatVars, authVars, pdf, docs, view, fmt, side, modal>>

\* onSessionChange: a click on a session of the sidebar, one with a history
onSessionChange(sessionId) ==
  /\ sessionId # thread.sessionId
  /\ thread.hist[sessionId] # <<>>
  /\ thread' = Selected(thread, sessionId)
  /\ UNCHANGED <<chatVars, authVars, pdf, docs, view, fmt, side, modal>>

\* time passes
Advance(d) ==
  /\ now + d <= MaxClock
  /\ now' = now + d
  /\ UNCHANGED <<chatHistory, req, nextId, payload, saved, authVars, restVars>>

(***************************************************************************)
(* Spec: concurrent requests and deletions over the chat history.          *)
(* SpecRetry: one request, every chat input and every kind of failure.     *)
(* SpecShapes: two requests, one after the other, every answer payload in  *)
(* every shape of a reply that parses.                                     *)
(***************************************************************************)
OnePayload == MkPayload(Str(<<"a">>), FileF1, Undef)
\* the chat inputs and session ids of the requests
SpecRequests ==
  {<<(<<"web search">>), "">>, <<(<<"web search">>), "s1">>,
   <<(<<"web search">>), "s2">>}
SpecOutcomes == {o \in Outcomes : o.shape \in {"none", "nested_object"} /\ o.kind # "status"}

Init == InitWith({OnePayload})

Next ==
  \/ \E r \in 1..NumReq, in \in SpecRequests : Receive(r, in[1], in[2])
  \/ \E r \in 1..NumReq, o \in SpecOutcomes : Attempt(r, o)
  \/ \E r \in 1..NumReq : WaitDone(r)
  \/ \E r \in 1..NumReq : Respond(r)
  \/ DeleteSession("s1")

Spec == Init /\ [][Next]_vars

RetryPayloads == {MkPayload(Str(<<"a">>), f, Num("7")) : f \in FileChoices}
RetryOutcomes ==
  {o \in Outcomes : o.shape \in {"none", "nested_object", "number_output", "null_body",
                                 "invalid_body"}}

InitRetry == InitWith(RetryPayloads)

NextRetry ==
  \/ \E ci \in ChatInputs, sid \in {"s1", ""} : Receive(1, ci, sid)
  \/ \E o \in RetryOutcomes : Attempt(1, o)
  \/ WaitDone(1)
  \/ Respond(1)
  \/ Tick

SpecRetry == InitRetry /\ [][NextRetry]_vars

ShapeReqs == {1, 2}
ShapeOutcomes ==
  {o \in Outcomes : o.kind = "ok" /\ o.shape \notin {"null_body", "invalid_body"}}
Alone(r) == \A q \in ShapeReqs \ {r} : req[q].pc \in {"idle", "done"}

InitShapes == InitWith(Payloads)

NextShapes ==
  \/ \E r \in ShapeReqs : Alone(r) /\ Receive(r, <<"web search">>, "s1")
  \/ \E r \in ShapeReqs, o \in ShapeOutcomes : Attempt(r, o)
  \/ \E r \in ShapeReqs : Respond(r)

SpecShapes == InitShapes /\ [][NextShapes]_vars

(***************************************************************************)
(* SpecAuth: logins and logouts as time passes.                            *)
(* SpecProxy: the PDF proxy and the document list, each with every         *)
(* outcome of its fetches.                                                 *)
(* SpecView: the document preview, for every line range.                   *)
(* SpecFormat: formatChatbotResponse on every answer of asterisks and      *)
(* letters.                                                                *)
(***************************************************************************)
InitAuth == InitWith({OnePayload})

NextAuth ==
  \/ \E u \in Usernames, p \in Passwords, w \in BOOLEAN : LoginArrives(u, p, w)
  \/ \E h \in Headers : LogoutArrives(h)
  \/ HandleLogin
  \/ HandleLogout
  \/ \E d \in ClockSteps : Advance(d)

SpecAuth == InitAuth /\ [][NextAuth]_vars

InitProxy == InitWith({OnePayload})

NextProxy ==
  \/ PdfArrives
  \/ \E o \in PdfOutcomes : PdfFetch(o)
  \/ DocsArrives
  \/ \E o \in DocsOutcomes : DocsFetch(o)

SpecProxy == InitProxy /\ [][NextProxy]_vars

InitView ==
  /\ ChatInit({OnePayload}) /\ AuthInit
  /\ pdf = IdlePdf /\ docs = IdleDocs /\ fmt = IdleFmt
  /\ side = IdleSide /\ modal = IdleModal /\ thread = IdleThread
  /\ view \in {ViewStart(in) : in \in ViewInputs}

NextView ==
  \/ \E ok \in BOOLEAN : RenderEffect(ok)
  \/ \E ok \in BOOLEAN : handleZoomIn(ok)
  \/ \E ok \in BOOLEAN : handleZoomOut(ok)
  \/ \E ok \in BOOLEAN : handlePageChange(view.currentPage + 1, ok)
  \/ \E ok \in BOOLEAN : handlePageChange(view.currentPage - 1, ok)

SpecView == InitView /\ [][NextView]_vars

InitFormat ==
  /\ ChatInit({OnePayload}) /\ AuthInit
  /\ pdf = IdlePdf /\ docs = IdleDocs /\ view = IdleView
  /\ side = IdleSide /\ modal = IdleModal /\ thread = IdleThread
  /\ fmt \in {FmtStart(a) : a \in FormatInputs}

NextFormat == Format

SpecFormat == InitFormat /\ [][NextFormat]_vars

InitLists ==
  /\ ChatInit({OnePayload}) /\ AuthInit
  /\ pdf = IdlePdf /\ docs = IdleDocs /\ view = IdleView /\ fmt = IdleFmt
  /\ thread = IdleThread
  /\ \E sessions \in SUBSET SessionPool : side = SideStart(sessions)
  /\ \E documents \in DocumentLists : modal = ModalStart(documents)

NextLists ==
  \/ \E value \in SearchQueries : SidebarSearch(value)
  \/ SidebarResetPage
  \/ SidebarPrevious
  \/ SidebarNext
  \/ \E id \in SessionPool : SidebarDelete(id)
  \/ \E id \in SessionPool : SidebarRefetch(id)
  \/ \E value \in SearchQueries : handleSearchChange(value)
  \/ ModalPrevious
  \/ ModalNext

SpecLists == InitLists /\ [][NextLists]_vars

InitThread == InitWith({OnePayload})

NextThread ==
  \/ handleSendMessage
  \/ \E r \in thread.inflight : ThreadAnswer(r)
  \/ \E r \in thread.inflight : ThreadError(r)
  \/ ThreadLoad
  \/ handleNewChat
  \/ \E sessionId \in 1..MaxChats : onSessionChange(sessionId)

SpecThread == InitThread /\ [][NextThread]_vars

(***************************************************************************)
(* Properties                                                              *)
(***************************************************************************)
\* the request has its AI message: saved, and then sent
Finished(r) == req[r].pc \in {"respond", "done"} /\ req[r].status # 400
Answered(r) == req[r].pc = "done" /\ req[r].status = 200
CallFailures == {"network", "status", "unparseable"}
AllCallsFailed(r) ==
  /\ Len(req[r].callLog) >= 1
  /\ \A i \in 1..Len(req[r].callLog) : req[r].callLog[i] \in CallFailures
SameButTimestamp(m1, m2) == [m1 EXCEPT !.timestamp = 0] = [m2 EXCEPT !.timestamp = 0]
Entry(id, sessionId, message) == [id |-> id, session_id |-> sessionId, message |-> message]

\* C1: a request with chatInput and sessionId has called the webhook at least
\* once when its message is built; every call after the first follows a call
\* of the same request that failed (network error or timeout, non-2xx status,
\* or a body the handler could not parse), so no call follows a call that
\* succeeded.
C1_CallsOnlyAfterFailure ==
  \A r \in 1..NumReq :
    /\ Finished(r) => Len(req[r].callLog) >= 1
    /\ \A i \in 2..Len(req[r].callLog) : req[r].callLog[i - 1] \in CallFailures

\* a request answered after one call that could not be parsed and one that succeeded
C1_Witness ==
  \E r \in 1..NumReq : Answered(r) /\ req[r].callLog = <<"unparseable", "ok">>

C3_SameMessageForAllShapes ==
  \A r1 \in 1..NumReq, r2 \in 1..NumReq :
    ( /\ Answered(r1) /\ Answered(r2)
      /\ req[r1].shape \in AnswerShapes /\ req[r2].shape \in AnswerShapes
      /\ ~req[r1].usedMock /\ ~req[r2].usedMock
      /\ payload.answer.t = "str" /\ payload.answer.v # <<>> )
    => SameButTimestamp(req[r1].body, req[r2].body)

\* C4: every request that is not refused has an AI message of the one format:
\* type ai, a string content and a timestamp; nothing saved or returned has the
\* placeholder as its content; the request ends with status 200.
C4_SingleFormat ==
  /\ \A r \in 1..NumReq :
       Finished(r) =>
         /\ req[r].body.type = "ai"
         /\ req[r].body.content.t = "str"
         /\ req[r].body.timestamp \in Nat
         /\ req[r].body.content # Str(Placeholder)
         /\ req[r].pc = "done" => req[r].status = 200
  /\ \A s \in SessionIds : \A i \in 1..Len(GetChat(s)) :
       /\ GetChat(s)[i].message.content.t = "str"
       /\ GetChat(s)[i].message.content # Str(Placeholder)

\* one request answered from the mock and one from a fenced JSON reply
C4_Witness ==
  \E r1 \in 1..NumReq, r2 \in 1..NumReq :
    /\ Answered(r1) /\ req[r1].usedMock
    /\ Answered(r2) /\ ~req[r2].usedMock /\ req[r2].shape = "fenced_json"

\* C5: a request appends to the history of its session exactly twice: the
\* human message with chatInput when it is accepted, and the AI message, equal
\* to the body it then sends with status 200, when it is built; no other step
\* of the request (a failed call, a wait, the send) changes any history, so
\* the human message is saved once however many calls are made; and the
\* entries of a history stand in the order they were saved.
C5_TwoAppendsInOrder ==
  /\ [](\A s \in SessionIds : \A i \in 1..Len(GetChat(s)), j \in 1..Len(GetChat(s)) :
          i < j => GetChat(s)[i].id < GetChat(s)[j].id)
  /\ [][\A r \in 1..NumReq :
          req'[r] # req[r] =>
            CASE req[r].pc = "idle" /\ req'[r].pc = "fetch" ->
                   getChatHistory(chatHistory', req'[r].sessionId)
                     = Append(GetChat(req'[r].sessionId),
                              Entry(nextId, req'[r].sessionId, Human(req'[r].chatInput, now)))
              [] req[r].pc \in {"fetch", "wait"} /\ req'[r].pc = "respond" ->
                   getChatHistory(chatHistory', req[r].sessionId)
                     = Append(GetChat(req[r].sessionId),
                              Entry(nextId, req[r].sessionId, req'[r].body))
              [] req[r].pc = "respond" ->
                   /\ req'[r].pc = "done" /\ req'[r].status = 200
                   /\ req'[r].body = req[r].body
                   /\ chatHistory' = chatHistory
              [] OTHER -> chatHistory' = chatHistory]_vars

\* a request answered after a failed call and a call that succeeded: its
\* session holds its human message and then its AI message, nothing else
C5_Witness ==
  \E r \in 1..NumReq :
    /\ Answered(r)
    /\ req[r].callLog = <<"network", "ok">>
    /\ Len(GetChat(req[r].sessionId)) = 2
    /\ GetChat(req[r].sessionId)[1].message = Human(req[r].chatInput, now)
    /\ GetChat(req[r].sessionId)[2].message = req[r].body

\* C6: whenever the handler read a structured answer with a non-empty string
\* answer, the AI message has a documentReference exactly when the FileID of
\* that answer is non-empty and not "Not Applicable", and it then holds the
\* answer's FileID, FileName, FileLink, From and To.
C6_DocRefIffFileID ==
  \A r \in 1..NumReq :
    ( /\ Finished(r)
      /\ req[r].parsed.some
      /\ req[r].parsed.p.answer.t = "str" /\ Truthy(req[r].parsed.p.answer) )
    => req[r].body.documentReference =
         IF Truthy(req[r].parsed.p.FileID) /\ req[r].parsed.p.FileID # NotApplicable
         THEN DocRef(req[r].parsed.p)
         ELSE NoDocRef

\* C7: no request makes more than 1 + MAX_RETRIES calls, and a request whose
\* calls all failed falls back to the mock only after MAX_RETRIES retries, that
\* is after 1 + MAX_RETRIES calls.
C7_TwoRetriesBeforeFallback ==
  \A r \in 1..NumReq :
    /\ Len(req[r].callLog) <= 1 + MAX_RETRIES
    /\ (Finished(r) /\ AllCallsFailed(r)) => Len(req[r].callLog) = 1 + MAX_RETRIES

\* C8: the wait before the k-th retry is RETRY_DELAY_BASE_MS * 2^(k-1) ms, and
\* a request whose calls all failed waited once less than it called: there is
\* no wait after the last failed call.
C8_BackoffFromBaseDelay ==
  \A r \in 1..NumReq :
    /\ \A k \in 1..Len(req[r].waits) : req[r].waits[k] = RETRY_DELAY_BASE_MS * Pow2(k - 1)
    /\ (Finished(r) /\ AllCallsFailed(r)) => Len(req[r].waits) = Len(req[r].callLog) - 1

\* C9: whenever the structured answer the handler read has a searchInfo field,
\* the AI message carries it as a string: the field itself when it is a
\* string, its JSON text otherwise.
C9_SearchInfoCarried ==
  \A r \in 1..NumReq :
    (Finished(r) /\ req[r].parsed.some /\ req[r].parsed.p.searchInfo # Undef)
    => req[r].body.searchInfo =
         IF req[r].parsed.p.searchInfo.t = "str"
         THEN req[r].parsed.p.searchInfo
         ELSE Str(StringifyScalar(req[r].parsed.p.searchInfo))

\* C10: GET /api/chat/:s returns exactly the entries saved under s since its
\* last deletion, each of them saved under s; GET /api/sessions lists exactly
\* the sessions with such an entry; and a step that changes the history of one
\* session, by a save or by a deletion, leaves the history of every other
\* session as it was.
C10_SessionIsolation ==
  /\ [](/\ \A s \in SessionIds :
             /\ GetChat(s) = saved[s]
             /\ \A i \in 1..Len(GetChat(s)) : GetChat(s)[i].session_id = s
        /\ GetSessions = {s \in SessionIds : saved[s] # <<>>})
  /\ [][\A s \in SessionIds :
          getChatHistory(chatHistory', s) # GetChat(s) =>
            /\ \/ getChatHistory(chatHistory', s) = <<>>
               \/ /\ Len(getChatHistory(chatHistory', s)) = Len(GetChat(s)) + 1
                  /\ SubSeq(getChatHistory(chatHistory', s), 1, Len(GetChat(s))) = GetChat(s)
            /\ \A t \in SessionIds \ {s} :
                 getChatHistory(chatHistory', t) = GetChat(t)]_vars

\* a request of session s1 was answered and s1 then deleted, while s2 keeps
\* its messages
C10_Witness ==
  \E r \in 1..NumReq :
    /\ Answered(r) /\ req[r].sessionId = "s1"
    /\ GetChat("s1") = <<>>
    /\ GetSessions = {"s2"}
    /\ Len(GetChat("s2")) >= 2

\* the session id S was issued by a login, was not logged out and has not
\* expired at the time t
Valid(S, t) ==
  /\ S \in DOMAIN authLog
  /\ ~authLog[S].out
  /\ t <= authLog[S].at + SESSION_HOURS
\* this step answers the pending request of the kind
AuthAnswers(kind) == authReq.pc = "pending" /\ authReq.kind = kind /\ authReq'.pc = "done"

\* C11: the handler behind requireAuth runs exactly when the x-session-id
\* header names a session created by a login, not logged out and not
\* expired; when it does not run (missing header, unknown id, logged out or
\* expired session) the response is 401.
C11_AuthOnlyWithLiveSession ==
  [][AuthAnswers("logout") =>
       /\ authReq'.ran <=> Valid(authReq.header, now)
       /\ ~authReq'.ran => authReq'.status = 401]_vars

\* a request with the id of an expired session was rejected with 401
C11_Witness ==
  /\ authReq.pc = "done" /\ authReq.kind = "logout"
  /\ ~authReq.ran /\ authReq.status = 401
  /\ authReq.header \in DOMAIN authLog
  /\ ~authLog[authReq.header].out
  /\ now > authLog[authReq.header].at + SESSION_HOURS

\* C12: a session that was logged out is in the store no more, and a request
\* presenting it is rejected with 401; a login that succeeds issues an id
\* never issued before; answering a logout request leaves every session other
\* than the one it presents as it was.
C12_LoggedOutStaysOut ==
  /\ [](\A S \in DOMAIN authLog : authLog[S].out => S \notin DOMAIN userSessions)
  /\ [][AuthAnswers("logout") =>
          /\ (authReq.header \in DOMAIN authLog /\ authLog[authReq.header].out)
               => (~authReq'.ran /\ authReq'.status = 401)
          /\ \A S \in DOMAIN userSessions \ {authReq.header} :
               S \in DOMAIN userSessions' /\ userSessions'[S] = userSessions[S]]_vars
  /\ [][(AuthAnswers("login") /\ authReq'.success) =>
          /\ authReq'.sessionId \notin DOMAIN authLog
          /\ authReq'.sessionId \in DOMAIN userSessions']_vars

\* session 1 was logged out and a later request presenting it was rejected,
\* while session 2 of the same user is still in the store
C12_Witness ==
  /\ authReq.pc = "done" /\ authReq.kind = "logout" /\ authReq.header = 1
  /\ authReq.status = 401
  /\ 1 \in DOMAIN authLog /\ authLog[1].out
  /\ 2 \in DOMAIN userSessions
  /\ userSessions[2].user_id = DefaultUser.id

C14_LoginNeedsMatchingCredentials ==
  [][(AuthAnswers("login") /\ authReq.wellFormed) =>
       IF authReq.username = DefaultUser.username /\ authReq.password = DefaultUser.password
       THEN /\ authReq'.status = 200 /\ authReq'.success
            /\ authReq'.sessionId \notin DOMAIN userSessions
            /\ authReq'.sessionId \in DOMAIN userSessions'
            /\ userSessions'[authReq'.sessionId].user_id = DefaultUser.id
       ELSE /\ authReq'.status = 401 /\ ~authReq'.success
            /\ authReq'.message = "Invalid username or password"
            /\ authReq'.sessionId = NoHeader
            /\ userSessions' = userSessions]_vars

\* a login with the user's name and a wrong password was answered 401 while a
\* session of an earlier login is in the store
C14_Witness ==
  /\ authReq.pc = "done" /\ authReq.kind = "login" /\ authReq.status = 401
  /\ authReq.username = DefaultUser.username /\ authReq.password = "wrong"
  /\ DOMAIN userSessions = {1}

\* C15: a POST /api/chat request without chatInput or without sessionId is
\* answered 400 "Missing required parameters" in the step that receives it;
\* that step changes no history, and the request never calls the webhook.
C15_MissingParametersRefused ==
  /\ [](\A r \in 1..NumReq :
          (req[r].pc # "idle" /\ (req[r].chatInput = <<>> \/ req[r].sessionId = "")) =>
            /\ req[r].pc = "done" /\ req[r].status = 400
            /\ req[r].error = "Missing required parameters"
            /\ req[r].callLog = <<>>)
  /\ [][\A r \in 1..NumReq :
          (req[r].pc = "idle" /\ req'[r].pc # "idle"
             /\ (req'[r].chatInput = <<>> \/ req'[r].sessionId = "")) =>
            /\ chatHistory' = chatHistory
            /\ nextId' = nextId]_vars

\* a request with a chatInput and no sessionId was refused
C15_Witness ==
  \E r \in 1..NumReq :
    /\ req[r].pc = "done" /\ req[r].status = 400
    /\ req[r].chatInput = <<"contract">> /\ req[r].sessionId = ""

\* the k-th candidate fetched answered OK with a body beginning with %PDF
LogYields(k) ==
  /\ pdf.log[k].o.kind = "ok"
  /\ Len(pdf.log[k].o.bytes) >= 4
  /\ pdf.log[k].o.bytes[1] = "%" /\ pdf.log[k].o.bytes[2] = "P"
  /\ pdf.log[k].o.bytes[3] = "D" /\ pdf.log[k].o.bytes[4] = "F"

\* C16: the PDF proxy fetches the candidate URLs in their listed order and
\* goes on only past a candidate that threw, answered non-OK or sent a body
\* not beginning with %PDF; it answers 200 with the body of the first
\* candidate that yields a PDF and fetches no further one, and answers 404
\* after all candidates failed.
C16_FirstPdfWins ==
  /\ Len(pdf.log) <= Len(urls)
  /\ \A k \in 1..Len(pdf.log) : pdf.log[k].url = urls[k]
  /\ \A k \in 1..(Len(pdf.log) - 1) : ~LogYields(k)
  /\ (pdf.pc = "fetch" /\ pdf.log # <<>>) => ~LogYields(Len(pdf.log))
  /\ pdf.pc = "done" =>
       IF LogYields(Len(pdf.log))
       THEN pdf.status = 200 /\ pdf.body = pdf.log[Len(pdf.log)].o.bytes
       ELSE pdf.status = 404 /\ pdf.body = NotFound /\ Len(pdf.log) = Len(urls)

\* the first candidate threw, the second sent an OK page that is no PDF and
\* the body of the third was sent
C16_Witness ==
  /\ pdf.pc = "done" /\ pdf.status = 200 /\ Len(pdf.log) = 3
  /\ pdf.log[1].o.kind = "throw"
  /\ pdf.log[2].o.kind = "ok" /\ pdf.log[2].o.bytes = <<"<", "h", "t", "m", "l", ">">>
  /\ pdf.body = <<"%", "P", "D", "F", "-", "b">>

\* pageNum shows lines that are highlighted, counting L lines on a page
OnPage(from, to, pageNum, L) == from <= pageNum * L /\ to >= (pageNum - 1) * L + 1

\* C17: with 1 <= from <= to and the text of the page at hand, the last
\* rendering of a page p drew the rectangle exactly when [from, to] meets the
\* lines of p, and otherwise the indicator naming the page ceil(from / L),
\* which is a page whose lines meet [from, to].
C17_HighlightOnItsPage ==
  (/\ view.drawn.kind # "unrendered" /\ view.drawn.textOk
   /\ 1 <= view.from /\ view.from <= view.to) =>
    IF OnPage(view.from, view.to, view.drawn.page, view.drawn.L)
    THEN view.drawn.kind = "rect"
    ELSE /\ view.drawn.kind = "indicator"
         /\ view.drawn.named = CeilDiv(view.from, view.drawn.L)
         /\ OnPage(view.from, view.to, view.drawn.named, view.drawn.L)

\* C18: POST /api/documents always answers 200: with the webhook's body when
\* the webhook answered OK with a JSON body, with the fixed mock list in
\* every other case.
C18_DocumentsNeverFail ==
  docs.pc = "done" =>
    /\ docs.status = 200
    /\ docs.body = IF docs.outcome.kind = "ok" /\ docs.outcome.body.json
                   THEN docs.outcome.body.value ELSE mockDocuments

\* the webhook answered OK with a body that is no JSON and the mock list
\* of 15 documents was sent
C18_Witness ==
  /\ docs.pc = "done" /\ docs.status = 200
  /\ docs.outcome.kind = "ok" /\ ~docs.outcome.body.json
  /\ Len(docs.body) = 15 /\ docs.body[1] = "US_TERMS_COND-0056.pdf"

\* s holds at i a bold span with n letters between its two pairs of asterisks
BoldAt(s, i, n) ==
  /\ i + n + 3 <= Len(s)
  /\ s[i] = "*" /\ s[i + 1] = "*"
  /\ \A k \in (i + 2)..(i + n + 1) : s[k] # "*"
  /\ s[i + n + 2] = "*" /\ s[i + n + 3] = "*"

\* C19: every bold span of the answer is in the formatted result, still
\* between its two pairs of asterisks.
C19_BoldKept ==
  fmt.done =>
    \A i \in 1..Len(fmt.answer), n \in 1..Len(fmt.answer) :
      BoldAt(fmt.answer, i, n) =>
        \E j \in 1..Len(fmt.result) :
          /\ BoldAt(fmt.result, j, n)
          /\ SubSeq(fmt.result, j, j + n + 3) = SubSeq(fmt.answer, i, i + n + 3)

\* C20: the zoom level is one of 50, 75, ... 200; a step changes it by 25
\* or not at all; handleZoomIn at 200 and handleZoomOut at 50 leave it as
\* it is.
C20_ZoomWithinBounds ==
  /\ [](view.zoomLevel \in {50 + 25 * k : k \in 0..6})
  /\ [][/\ view'.zoomLevel - view.zoomLevel \in {-25, 0, 25}
        /\ (view'.last = "handleZoomIn" /\ view.zoomLevel = 200) => view'.zoomLevel = 200
        /\ (view'.last = "handleZoomOut" /\ view.zoomLevel = 50) => view'.zoomLevel = 50
        /\ (view'.last = "handleZoomIn" /\ view.zoomLevel < 200)
             => view'.zoomLevel = view.zoomLevel + 25
        /\ (view'.last = "handleZoomOut" /\ view.zoomLevel > 50)
             => view'.zoomLevel = view.zoomLevel - 25]_vars

\* handleZoomIn ran at 200 after the page had been rendered at 200: no
\* render is pending
C20_Witness ==
  view.zoomLevel = 200 /\ view.last = "handleZoomIn" /\ ~view.effect

\* the page shown is one of the pages of a list that is not empty, and it
\* shows items
PageInRange(filtered, page, itemsPerPage) ==
  filtered # <<>> =>
    /\ page \in 1..CeilDiv(Len(filtered), itemsPerPage)
    /\ Paginated(filtered, page, itemsPerPage) # <<>>

\* C21: the page of sessions the sidebar shows holds at most 5 items and the
\* page of documents the modal shows at most 8; once the effect of a search
\* edit has run, the page number of each is within 1..totalPages whenever
\* its filtered list is not empty, and the page shown is not empty.
C21_PageWithinRange ==
  /\ Len(paginatedSessions(side)) <= 5
  /\ Len(paginatedDocuments(modal)) <= 8
  /\ ~side.effect => PageInRange(filteredSessions(side), side.historyPage, 5)
  /\ PageInRange(filteredDocuments(modal), modal.currentPage, 8)

\* C22: every message of the thread other than the welcome message belongs
\* to the session that is selected.
C22_ThreadOfSelectedSession ==
  \A i \in 1..Len(thread.messages) :
    thread.messages[i].type # "welcome" =>
      thread.messages[i].session = thread.sessionId

====
